---- MODULE Spec2Model ----
(***************************************************************************)
(* A model of the mDNS responder/resolver library.                         *)
(*                                                                         *)
(* The repository holds the library in three generations, which the model  *)
(* keeps apart with the variable "variant":                                *)
(*   "conn_go"  : src/conn.go with the record store of src/unnamed/part_000*)
(*                (wire codec golang.org/x/net/dns/dnsmessage);            *)
(*   "part_002" : src/unnamed/part_002 with the record store of            *)
(*                src/go.mod lines 13-266 (wire codec miekg/dns);          *)
(*   "part_001" : src/unnamed/part_001 (Start, QuerySync, QueryASync) with *)
(*                the same miekg record store.                             *)
(*                                                                         *)
(* Names are sequences of one-character strings, so that the trailing dot  *)
(* and the letter case are something the model can tell apart.             *)
(***************************************************************************)
EXTENDS Integers, Sequences, FiniteSets, TLC

VARIABLES
    variant,      \* which generation of the library runs
    ARecords,     \* Config.ARecords
    SRVRecords,   \* Config.SRVRecords
    panicked,     \* a run-time panic has ended the program
    last,         \* the last record-store call and what it returned
    sockErr,      \* the socket fails every further read (closed from outside, or broken)
    closes,       \* how many times the library has called c.socket.Close()
    ctxDone,      \* the context given to NewServer is cancelled (part_001)
    closedN,      \* how many times close(c.closed) has run
    starts,       \* how many times start / Start has been invoked
    rd,           \* where the goroutine that reads the socket stands
    dp,           \* where the dispatching code stands
    buf,          \* the datagram held by the receive buffer b
    eng,          \* the dispatcher's locals for the packet it is processing
    npkts,        \* datagrams received so far
    out,          \* what the engine has sent for the packet it is processing
    queries,      \* Conn.queries
    qs,           \* per query call: its position and locals
    chans,        \* per query call: the content of its queryChan (capacity 1)
    delivered,    \* per query call: every value ever sent to its queryChan
    qctx,         \* per query call: the caller's context is done
    tick,         \* per query call: ticker.C holds a tick
    nticks,       \* ticks fired so far
    qsent,        \* per query call: sendQuestion calls made
    cons,         \* per asynchronous query call: what the reader of results does
    mu,           \* the sync.RWMutex embedded in Config
    lk            \* where a Lookup call and an add call stand at that mutex

storeVars == <<ARecords, SRVRecords, last>>

connVars == <<sockErr, closes, ctxDone, closedN, starts, rd, dp, buf, eng,
              npkts, out, queries, qs, chans, delivered, qctx, tick, nticks,
              qsent, cons>>

vars == <<variant, ARecords, SRVRecords, panicked, last, sockErr, closes,
          ctxDone, closedN, starts, rd, dp, buf, eng, npkts, out, queries,
          qs, chans, delivered, qctx, tick, nticks, qsent, cons, mu, lk>>

lockVars == <<mu, lk>>

-----------------------------------------------------------------------------
(* Bounds and input domains *)

MaxRecords == 3

responseTTL == 10

nameLen == 255

RawNames == { <<>>, <<"x">>, <<"x", ".">>, <<"X", ".">>, <<"y", ".">> }

Targets == { <<>>, <<"x">>, <<"y", ".">> }

IPs == {"ip1", "ip2"}

DstOpts == IPs \cup {"nil"}

Srcs == {"s1", "s2", "s3"}

Ports == {8080}

QTypes == {"A", "SRV"}

StoreVariants == {"conn_go", "part_001"}

UsesDnsmessage == variant = "conn_go"

-----------------------------------------------------------------------------
(* Names *)

\* strings.ToLower on one character
LowerChar(c) == CASE c = "X" -> "x" [] c = "Y" -> "y" [] OTHER -> c

\* the canonical form of the data model: lowercase, trailing dot
Canonical(n) ==
    LET low == [i \in 1..Len(n) |-> LowerChar(n[i])]
    IN  IF Len(low) > 0 /\ low[Len(low)] = "." THEN low ELSE Append(low, ".")

\* addDot: append the ending dot when it is missing
addDot(n) == IF Len(n) > 0 /\ n[Len(n)] = "." THEN n ELSE Append(n, ".")

\* dnsmessage.NewName followed by Name.String(): the text itself, or an error
\* when it is longer than the wire format allows
NewName(n) == IF Len(n) > nameLen THEN [err |-> "errCalcLen", name |-> <<>>]
              ELSE [err |-> "nil", name |-> n]

\* interfaceForRemote: the local IPv4 that reaches the peer, or a failure
interfaceForRemote(src) ==
    CASE src = "s1" -> [err |-> "nil", ip |-> "l1"]
      [] src = "s2" -> [err |-> "nil", ip |-> "l2"]
      [] OTHER      -> [err |-> "err", ip |-> "nil"]

-----------------------------------------------------------------------------
(* Record store *)

createSimpleARecord(name) ==
    [name |-> name, rtype |-> "A", ttl |-> responseTTL, addr |-> "nil",
     dynamic |-> FALSE]

\* the dnsmessage generation builds the SRV record with Type: TypeA and the
\* response TTL; the miekg generation with Rrtype SRV and no TTL
createSRVRecord(name, priority, weight, port, target) ==
    [name |-> name,
     rtype |-> IF UsesDnsmessage THEN "A" ELSE "SRV",
     ttl |-> IF UsesDnsmessage THEN responseTTL ELSE 0,
     priority |-> priority, weight |-> weight, port |-> port,
     target |-> target]

\* a choice that makes the record static whenever dst is given
newARecordStaticWheneverDst(name, dst, dyn) ==
    IF dst # "nil"
    THEN [createSimpleARecord(name) EXCEPT !.addr = dst, !.dynamic = FALSE]
    ELSE [createSimpleARecord(name) EXCEPT !.dynamic = TRUE]

\* AddARecord 79-91: static exactly when dyn is false and dst is given
newARecord(name, dst, dyn) ==
    IF ~dyn /\ dst # "nil"
    THEN [createSimpleARecord(name) EXCEPT !.addr = dst, !.dynamic = FALSE]
    ELSE [createSimpleARecord(name) EXCEPT !.dynamic = TRUE]

\* the name under which an add call stores the record
StoredName(name) == IF UsesDnsmessage THEN NewName(name).name ELSE addDot(name)

\* the greatest index whose record is named name, 0 when there is none
\* (the loops run from len-1 down to 0 and stop at the first hit)
LastIndexOf(recs, name) ==
    LET hits == {i \in 1..Len(recs) : recs[i].name = name}
    IN  IF hits = {} THEN 0 ELSE CHOOSE i \in hits : \A j \in hits : j <= i

\* addARecordToConfig / addSRVRecordToConfig
addRecordToConfig(recs, rec) ==
    IF LastIndexOf(recs, rec.name) # 0
    THEN [err |-> "errRecordExists", recs |-> recs]
    ELSE [err |-> "nil", recs |-> Append(recs, rec)]

\* append(c.ARecords[:i], c.ARecords[i+1]): the element after i is indexed,
\* not sliced: out of range when i is the last index, and everything after
\* i+1 is cut off otherwise
removeAt(recs, i) ==
    IF i + 1 > Len(recs)
    THEN [err |-> "panic", recs |-> recs]
    ELSE [err |-> "nil", recs |-> Append(SubSeq(recs, 1, i - 1), recs[i + 1])]

\* a remove that reports success when no record is named name
removeRecordAlwaysNil(recs, name) ==
    LET i == LastIndexOf(recs, name)
    IN  IF i = 0 THEN [err |-> "nil", recs |-> recs]
        ELSE removeAt(recs, i)

\* RemoveARecord / RemoveSRVRecord
removeRecord(recs, name) ==
    LET i == LastIndexOf(recs, name)
    IN  IF i = 0 THEN [err |-> "errRecordNotFound", recs |-> recs]
        ELSE removeAt(recs, i)

\* lookupA / lookupSRV: the first record named qName, as a copy
lookupFirst(recs, qName) ==
    LET hits == {i \in 1..Len(recs) : recs[i].name = qName}
    IN  IF hits = {} THEN <<>>
        ELSE <<recs[CHOOSE i \in hits : \A j \in hits : i <= j]>>

\* AddDynamicIP
AddDynamicIPIgnoringResolverError(rec, src) ==
    LET r == interfaceForRemote(src)
    IN  [err |-> "nil", rec |-> [rec EXCEPT !.addr = r.ip]]

AddDynamicIP(rec, src) ==
    LET r == interfaceForRemote(src)
    IN  IF r.err # "nil" THEN [err |-> "errInvalidParameter", rec |-> rec]
        ELSE [err |-> "nil", rec |-> [rec EXCEPT !.addr = r.ip]]

\* Config.Lookup of the dnsmessage generation (part_000).  answers is passed
\* by value: "local" is the callee's slice after its appends, "answers" is
\* what the caller's slice holds when the call returns.
RECURSIVE LookupDnsmessage(_, _, _, _, _, _)
LookupDnsmessage(A, S, answers, name, ttype, src) ==
    IF ttype = "A" /\ lookupFirst(A, name) # <<>>
    THEN LET rec == lookupFirst(A, name)[1]
             dyn == AddDynamicIP(rec, src)
         IN  IF rec.dynamic /\ dyn.err # "nil"
             THEN [err |-> dyn.err, answers |-> answers, local |-> answers]
             ELSE [err |-> "nil", answers |-> answers,
                   local |-> Append(answers,
                                    IF rec.dynamic THEN dyn.rec ELSE rec)]
    ELSE IF ttype = "SRV" /\ lookupFirst(S, name) # <<>>
    THEN LET rec == lookupFirst(S, name)[1]
             sub == LookupDnsmessage(A, S, answers, rec.name, rec.rtype, src)
         IN  [err |-> "nil", answers |-> answers,
              local |-> IF sub.err # "nil" THEN Append(answers, rec)
                        ELSE answers]
    ELSE [err |-> "errRecordNotFound", answers |-> answers, local |-> answers]

\* Config.Lookup of the miekg generation (go.mod 190-230).  answers is passed
\* by pointer, so the caller sees every append.
RECURSIVE LookupMiekg(_, _, _, _, _, _)
LookupMiekg(A, S, answers, name, ttype, src) ==
    IF ttype = "A" /\ lookupFirst(A, name) # <<>>
    THEN LET rec == lookupFirst(A, name)[1]
             dyn == AddDynamicIP(rec, src)
         IN  IF rec.dynamic /\ dyn.err # "nil"
             THEN [err |-> dyn.err, answers |-> answers, local |-> answers]
             ELSE LET more == Append(answers,
                                     IF rec.dynamic THEN dyn.rec ELSE rec)
                  IN  [err |-> "nil", answers |-> more, local |-> more]
    ELSE IF ttype = "SRV" /\ lookupFirst(S, name) # <<>>
    THEN LET rec == lookupFirst(S, name)[1]
             sub == LookupMiekg(A, S, Append(answers, rec), rec.target, "A", src)
         IN  [err |-> sub.err, answers |-> sub.answers, local |-> sub.answers]
    ELSE [err |-> "nil", answers |-> answers, local |-> answers]

Lookup(A, S, answers, name, ttype, src) ==
    IF UsesDnsmessage THEN LookupDnsmessage(A, S, answers, name, ttype, src)
    ELSE LookupMiekg(A, S, answers, name, ttype, src)

-----------------------------------------------------------------------------
(* Record store calls *)

\* the model stops adding records at MaxRecords; the code has no such limit
StoreRoom == Len(ARecords) + Len(SRVRecords) < MaxRecords

Call(op, name, err) == [op |-> op, name |-> name, err |-> err]

AddARecord(name, dst, dyn) ==
    /\ ~panicked
    /\ IF name = <<>>
       THEN /\ last' = Call("AddARecord", name, "errInvalidParameter")
            /\ UNCHANGED <<ARecords, SRVRecords, panicked>>
       ELSE LET r == addRecordToConfig(ARecords,
                         newARecord(StoredName(name), dst, dyn))
            IN  /\ r.err = "nil" => StoreRoom
                /\ ARecords' = r.recs
                /\ last' = Call("AddARecord", name, r.err)
                /\ UNCHANGED <<SRVRecords, panicked>>
    /\ UNCHANGED <<variant, mu, lk, connVars>>

\* an add_srv that checks the name only
AddSRVRecordWithoutTargetCheck(name, priority, weight, port, target) ==
    /\ ~panicked
    /\ IF name = <<>>
       THEN /\ last' = Call("AddSRVRecord", name, "errInvalidParameter")
            /\ UNCHANGED <<ARecords, SRVRecords, panicked>>
       ELSE LET r == addRecordToConfig(SRVRecords,
                         createSRVRecord(StoredName(name), priority, weight,
                                         port, StoredName(target)))
            IN  /\ r.err = "nil" => StoreRoom
                /\ SRVRecords' = r.recs
                /\ last' = Call("AddSRVRecord", name, r.err)
                /\ UNCHANGED <<ARecords, panicked>>
    /\ UNCHANGED <<variant, mu, lk, connVars>>

AddSRVRecord(name, priority, weight, port, target) ==
    /\ ~panicked
    /\ IF name = <<>> \/ target = <<>>
       THEN /\ last' = Call("AddSRVRecord", name, "errInvalidParameter")
            /\ UNCHANGED <<ARecords, SRVRecords, panicked>>
       ELSE LET r == addRecordToConfig(SRVRecords,
                         createSRVRecord(StoredName(name), priority, weight,
                                         port, StoredName(target)))
            IN  /\ r.err = "nil" => StoreRoom
                /\ SRVRecords' = r.recs
                /\ last' = Call("AddSRVRecord", name, r.err)
                /\ UNCHANGED <<ARecords, panicked>>
    /\ UNCHANGED <<variant, mu, lk, connVars>>

RemoveARecord(name) ==
    /\ ~panicked
    /\ LET r == removeRecord(ARecords, name)
       IN  /\ ARecords' = r.recs
           /\ panicked' = (r.err = "panic")
           /\ last' = Call("RemoveARecord", name, r.err)
    /\ UNCHANGED <<variant, mu, lk, SRVRecords, connVars>>

RemoveSRVRecord(name) ==
    /\ ~panicked
    /\ LET r == removeRecord(SRVRecords, name)
       IN  /\ SRVRecords' = r.recs
           /\ panicked' = (r.err = "panic")
           /\ last' = Call("RemoveSRVRecord", name, r.err)
    /\ UNCHANGED <<variant, mu, lk, ARecords, connVars>>

\* a caller of Config.Lookup that starts from an empty answer slice, as the
\* packet engine does
DoLookup(name, ttype, src) ==
    /\ ~panicked
    /\ LET r == Lookup(ARecords, SRVRecords, <<>>, name, ttype, src)
       IN  last' = [op |-> "Lookup", name |-> name, ttype |-> ttype,
                    src |-> src, err |-> r.err, answers |-> r.answers,
                    local |-> r.local]
    /\ UNCHANGED <<variant, mu, lk, ARecords, SRVRecords, panicked, connVars>>

-----------------------------------------------------------------------------
(* Connection: bounds and inputs *)

MaxQueries == 2

MaxPackets == 2

MaxTicks == 1

MaxStarts == 2

maxMessageRecords == 3

maxQueryMessageRecords == 1

destinationAddress == "224.0.0.251:5353"

Q == 1..MaxQueries

Variants == {"conn_go", "part_002", "part_001"}

\* conn.go guards c.queries with c.mu; part_001 and part_002 have no lock
Racy == variant # "conn_go"

\* part_001 reads the socket in one goroutine and dispatches in another
TwoGoroutines == variant = "part_001"

NX == <<"x", ".">>

ND == <<"d", ".">>

NS == <<"s", ".">>

NT == <<"t", ".">>

NN == <<"n", ".">>

\* the records the server is configured with before it starts: a static and
\* a dynamic A record, an SRV record whose target has an A record and one
\* whose target has none
ConnARecords ==
    LET a1 == addRecordToConfig(<<>>, newARecord(StoredName(NX), "ip1", FALSE))
    IN  addRecordToConfig(a1.recs, newARecord(StoredName(ND), "nil", TRUE)).recs

ConnSRVRecords ==
    LET s1 == addRecordToConfig(<<>>,
                  createSRVRecord(StoredName(NS), 0, 0, 8080, StoredName(NX)))
    IN  addRecordToConfig(s1.recs,
            createSRVRecord(StoredName(NT), 0, 0, 8080, StoredName(NN))).recs

Qn(name, qtype) == [name |-> name, qtype |-> qtype]

RR(name, rtype) == [name |-> name, rtype |-> rtype]

Pkt(bad, opcode, rcode, tc, questions, answers, src) ==
    [bad |-> bad, opcode |-> opcode, rcode |-> rcode, tc |-> tc,
     questions |-> questions, answers |-> answers, src |-> src]

QuestionLists ==
    { <<Qn(NX, "A")>>, <<Qn(ND, "A")>>, <<Qn(NS, "SRV")>>, <<Qn(NT, "SRV")>>,
      <<Qn(NN, "A")>>, <<Qn(NX, "A"), Qn(NX, "A")>> }

AnswerLists ==
    { <<RR(NX, "A")>>, <<RR(NX, "SRV")>>, <<RR(NX, "AAAA")>>,
      <<RR(NX, "TXT"), RR(NX, "A")>>,
      <<RR(NX, "TXT"), RR(NX, "TXT"), RR(NX, "TXT"), RR(NX, "A")>> }

\* datagrams that carry a question and an answer: one well-formed, one per
\* protocol gate, and one that does not parse
MixedPackets ==
    { Pkt(FALSE, 0, 0, FALSE, <<Qn(NX, "A")>>, <<RR(NX, "A")>>, "s1"),
      Pkt(FALSE, 2, 0, FALSE, <<Qn(NX, "A")>>, <<RR(NX, "A")>>, "s1"),
      Pkt(FALSE, 0, 3, FALSE, <<Qn(NX, "A")>>, <<RR(NX, "A")>>, "s1"),
      Pkt(FALSE, 0, 0, TRUE, <<Qn(NX, "A")>>, <<RR(NX, "A")>>, "s1"),
      Pkt(TRUE, 0, 0, FALSE, <<Qn(NX, "A")>>, <<RR(NX, "A")>>, "s1") }

\* the datagrams a querier's network may deliver
AnswerPackets ==
    {Pkt(FALSE, 0, 0, FALSE, <<>>, a, "s1") : a \in AnswerLists}
    \cup MixedPackets

\* the datagrams a responder's network may deliver
QuestionPackets ==
    {Pkt(FALSE, 0, 0, FALSE, q, <<>>, "s1") : q \in QuestionLists}
    \cup {Pkt(FALSE, 0, 0, FALSE, <<Qn(ND, "A")>>, <<>>, s) : s \in {"s2", "s3"}}
    \cup MixedPackets

\* what callers ask for
QueryArgs == { [name |-> <<"x">>, ttype |-> "A"],
               [name |-> <<"x">>, ttype |-> "SRV"] }

QueryKinds == {"sync", "async"}

\* what a variable that holds a datagram or a result holds before it has one
Unset == [unset |-> TRUE]

Eng0 == [raw |-> Unset, src |-> "none", msg |-> Unset, hdrs |-> <<>>,
         ai |-> 0, pend |-> <<>>, bi |-> 0, did |-> 0]

Q0 == [pc |-> "idle", kind |-> "sync", name |-> <<>>, ttype |-> "A",
       snap |-> <<>>, res |-> "none", val |-> Unset]

-----------------------------------------------------------------------------
(* Packet engine: pure parts *)

Min(a, b) == IF a < b THEN a ELSE b

\* the checks that drop a datagram before any processing: the parse error
\* of every generation, and the OPCODE / RCODE / TC gates, which conn.go
\* does not have
GateDrop(m) ==
    \/ m.bad
    \/ variant # "conn_go" /\ (m.opcode # 0 \/ m.rcode # 0 \/ m.tc)

\* createMessage / createAnswerMessage, as handed to sendAnswer
createMessage(answers) ==
    [dst |-> destinationAddress, response |-> TRUE, authoritative |-> TRUE,
     opcode |-> 0, questions |-> <<>>, answers |-> answers]

\* the questions the loop looks at: conn.go stops after i <=
\* maxQueryMessageRecords, the miekg generations range over all of them
QuestionsSeen(m) ==
    IF variant = "conn_go"
    THEN SubSeq(m.questions, 1, Min(Len(m.questions), maxQueryMessageRecords + 1))
    ELSE m.questions

\* one Lookup per question, from a fresh empty slice; a response is sent
\* whenever Lookup returns no error
RECURSIVE AnswerQuestions(_, _, _)
AnswerQuestions(qlist, src, sent) ==
    IF qlist = <<>> THEN sent
    ELSE LET r == Lookup(ARecords, SRVRecords, <<>>, qlist[1].name,
                         qlist[1].qtype, src)
         IN  AnswerQuestions(Tail(qlist), src,
                 IF r.err = "nil" THEN Append(sent, createMessage(r.answers))
                 ELSE sent)

\* the answer headers the loop sees, in order.  conn.go calls
\* Parser.AnswerHeader maxMessageRecords + 1 times without ever consuming a
\* body, so the parser hands out the first header each time, and it reaches
\* the answer section only when the question loop met the end of the
\* question section.  The miekg generations range over msg.Answer.
AnswerHeaders(m) ==
    IF variant = "conn_go"
    THEN IF Len(m.questions) > maxQueryMessageRecords \/ m.answers = <<>>
         THEN <<>>
         ELSE [i \in 1..(maxMessageRecords + 1) |-> m.answers[1]]
    ELSE m.answers

\* the answer types that are matched against the registry
Considered(h) ==
    IF variant = "conn_go" THEN h.rtype \in {"A", "AAAA"}
    ELSE h.rtype \in {"A", "SRV"}

\* the value sent to the sink
Payload(m, h, src) ==
    IF variant = "conn_go" THEN [answer |-> h, addr |-> src]
    ELSE [answer |-> m.answers, addr |-> src]

\* append(c.queries[:i], c.queries[i+1:]...)
RemoveIdx(list, i) == SubSeq(list, 1, i - 1) \o SubSeq(list, i + 1, Len(list))

\* for i := len(c.queries) - 1; i >= 0; i-- : send to every matching entry
\* and remove it; the send blocks when the sink (capacity 1) is full
RECURSIVE ScanFrom(_, _, _, _, _, _)
ScanFrom(i, list, ch, dl, h, pay) ==
    IF i = 0 THEN [list |-> list, ch |-> ch, dl |-> dl, blocked |-> 0]
    ELSE IF list[i].name = h.name /\ list[i].ttype = h.rtype
    THEN IF Len(ch[list[i].id]) >= 1
         THEN [list |-> list, ch |-> ch, dl |-> dl, blocked |-> i]
         ELSE ScanFrom(i - 1, RemoveIdx(list, i),
                       [ch EXCEPT ![list[i].id] = Append(@, pay)],
                       [dl EXCEPT ![list[i].id] = Append(@, pay)], h, pay)
    ELSE ScanFrom(i - 1, list, ch, dl, h, pay)

-----------------------------------------------------------------------------
(* Packet engine: the receive loop *)

qVars == <<qs, qctx, tick, nticks, qsent, cons>>

envVars == <<sockErr, ctxDone>>

\* the socket accepts no further read: broken or closed from outside, or
\* closed by the library itself
ReadFails == sockErr \/ closes > 0

\* close(c.closed); closing a closed channel panics
CloseClosed ==
    /\ closedN' = closedN + 1
    /\ panicked' = (closedN >= 1)

\* c.socket.ReadFrom(b) returns a datagram.  In conn.go and part_002 the same
\* goroutine goes on to process it; in part_001 the reader then waits to hand
\* it to the dispatcher.
Recv(pkt) ==
    /\ ~panicked
    /\ rd = "read"
    /\ ~ReadFails
    /\ npkts < MaxPackets
    /\ npkts' = npkts + 1
    /\ buf' = pkt
    /\ IF TwoGoroutines
       THEN /\ rd' = "handoff"
            /\ UNCHANGED <<dp, eng>>
       ELSE /\ rd' = "busy"
            /\ dp' = "parse"
            /\ eng' = [Eng0 EXCEPT !.raw = pkt, !.src = pkt.src]
    /\ UNCHANGED <<variant, mu, lk, storeVars, panicked, envVars, closes, closedN,
                   starts, out, queries, chans, delivered, qVars>>

\* c.socket.ReadFrom(b) returns an error.  conn.go and part_002 return from
\* start, whose deferred function closes c.closed; the reader of part_001
\* just returns.
ReadError ==
    /\ ~panicked
    /\ rd = "read"
    /\ ReadFails
    /\ rd' = "done"
    /\ IF TwoGoroutines
       THEN UNCHANGED <<dp, closedN, panicked>>
       ELSE /\ dp' = "done"
            /\ CloseClosed
    /\ UNCHANGED <<variant, mu, lk, storeVars, envVars, closes, starts, buf, eng,
                   npkts, out, queries, chans, delivered, qVars>>

\* part_001: queue <- packet{buf: b[:n], ...} meets case p := <-queue
Handoff ==
    /\ ~panicked
    /\ TwoGoroutines
    /\ rd = "handoff"
    /\ dp = "idle"
    /\ rd' = "read"
    /\ dp' = "parse"
    /\ eng' = [Eng0 EXCEPT !.raw = buf, !.src = buf.src]
    /\ UNCHANGED <<variant, mu, lk, storeVars, panicked, envVars, closes, closedN,
                   starts, buf, npkts, out, queries, chans, delivered, qVars>>

\* part_001: case <-c.ctx.Done(): close(c.closed); c.socket.Close(); return
DispatcherShutdown ==
    /\ ~panicked
    /\ TwoGoroutines
    /\ dp = "idle"
    /\ ctxDone
    /\ CloseClosed
    /\ closes' = IF closedN >= 1 THEN closes ELSE closes + 1
    /\ dp' = "done"
    /\ UNCHANGED <<variant, mu, lk, storeVars, envVars, starts, rd, buf, eng, npkts,
                   out, queries, chans, delivered, qVars>>

\* the step after the scan for answer eng.ai is over
Advance(e) ==
    IF e.ai < Len(e.hdrs)
    THEN /\ eng' = [e EXCEPT !.ai = @ + 1]
         /\ dp' = "answers"
    ELSE /\ eng' = e
         /\ dp' = "processed"

\* parse, gates and question handling of one datagram.  The parser reads
\* the receive buffer as it is now; from then on nothing reads that content
\* again, and the model forgets it unless the reader has already put the
\* next datagram there.
DispatchParse ==
    /\ ~panicked
    /\ dp = "parse"
    /\ buf' = IF rd = "handoff" THEN buf ELSE Unset
    /\ LET m == buf
       IN  IF GateDrop(m)
           THEN /\ dp' = "processed"
                /\ out' = <<>>
                /\ eng' = [eng EXCEPT !.msg = m]
           ELSE /\ out' = AnswerQuestions(QuestionsSeen(m), eng.src, <<>>)
                /\ IF AnswerHeaders(m) = <<>>
                   THEN /\ dp' = "processed"
                        /\ eng' = [eng EXCEPT !.msg = m]
                   ELSE /\ dp' = "answers"
                        /\ eng' = [eng EXCEPT !.msg = m,
                                              !.hdrs = AnswerHeaders(m),
                                              !.ai = 1]
    /\ UNCHANGED <<variant, mu, lk, storeVars, panicked, envVars, closes, closedN,
                   starts, rd, npkts, queries, chans, delivered, qVars>>

\* the registry scan for one answer, from index "from" down.  Without a lock
\* (part_001, part_002) the slice the scan has shortened is stored in a step
\* of its own, so that a registration can fall between the two.
ScanAndContinue(from) ==
    LET h == eng.hdrs[eng.ai]
        r == ScanFrom(from, queries, chans, delivered, h,
                      Payload(eng.msg, h, eng.src))
        e == [eng EXCEPT !.did = @ + Len(queries) - Len(r.list), !.bi = r.blocked]
    IN  /\ chans' = r.ch
        /\ delivered' = r.dl
        /\ IF r.blocked # 0
           THEN /\ queries' = r.list
                /\ eng' = e
                /\ dp' = "blocked"
           ELSE IF r.list = queries
           THEN /\ UNCHANGED queries
                /\ Advance(e)
           ELSE IF Racy
           THEN /\ UNCHANGED queries
                /\ eng' = [e EXCEPT !.pend = r.list]
                /\ dp' = "write"
           ELSE /\ queries' = r.list
                /\ Advance(e)

AnswerStep ==
    /\ ~panicked
    /\ dp = "answers"
    /\ IF Considered(eng.hdrs[eng.ai])
       THEN ScanAndContinue(Len(queries))
       ELSE /\ Advance(eng)
            /\ UNCHANGED <<queries, chans, delivered>>
    /\ UNCHANGED <<variant, mu, lk, storeVars, panicked, envVars, closes, closedN,
                   starts, rd, buf, npkts, out, qVars>>

\* c.queries = append(...): the store of the shortened slice
AnswerWrite ==
    /\ ~panicked
    /\ dp = "write"
    /\ queries' = eng.pend
    /\ Advance([eng EXCEPT !.pend = <<>>])
    /\ UNCHANGED <<variant, mu, lk, storeVars, panicked, envVars, closes, closedN,
                   starts, rd, buf, npkts, out, chans, delivered, qVars>>

\* the blocked send goes through once the sink has been emptied
BlockedResume ==
    /\ ~panicked
    /\ dp = "blocked"
    /\ eng.bi <= Len(queries)
    /\ chans[queries[eng.bi].id] = <<>>
    /\ ScanAndContinue(eng.bi)
    /\ UNCHANGED <<variant, mu, lk, storeVars, panicked, envVars, closes, closedN,
                   starts, rd, buf, npkts, out, qVars>>

\* the datagram is done with: back to ReadFrom (conn.go, part_002) or to the
\* select (part_001)
EngineLoop ==
    /\ ~panicked
    /\ dp = "processed"
    /\ dp' = "idle"
    /\ rd' = IF TwoGoroutines THEN rd ELSE "read"
    /\ eng' = Eng0
    /\ out' = <<>>
    /\ UNCHANGED <<variant, mu, lk, storeVars, panicked, envVars, closes, closedN,
                   starts, buf, npkts, queries, chans, delivered, qVars>>

\* part_001: Start is public; a further call after the first has returned
\* (wg.Wait() is through once reader and dispatcher are done)
StartAgain ==
    /\ ~panicked
    /\ TwoGoroutines
    /\ rd = "done" /\ dp = "done"
    /\ starts < MaxStarts
    /\ starts' = starts + 1
    /\ rd' = "read"
    /\ dp' = "idle"
    /\ UNCHANGED <<variant, mu, lk, storeVars, panicked, envVars, closes, closedN,
                   buf, eng, npkts, out, queries, chans, delivered, qVars>>

\* the environment: the socket breaks or is closed from outside
SocketError ==
    /\ ~panicked
    /\ ~sockErr
    /\ sockErr' = TRUE
    /\ UNCHANGED <<variant, mu, lk, storeVars, panicked, ctxDone, closes, closedN,
                   starts, rd, dp, buf, eng, npkts, out, queries, chans,
                   delivered, qVars>>

\* the environment: the context given to NewServer is cancelled
CancelServer ==
    /\ ~panicked
    /\ TwoGoroutines
    /\ ~ctxDone
    /\ ctxDone' = TRUE
    /\ UNCHANGED <<variant, mu, lk, storeVars, panicked, sockErr, closes, closedN,
                   starts, rd, dp, buf, eng, npkts, out, queries, chans,
                   delivered, qVars>>

-----------------------------------------------------------------------------
(* Outbound queries: Query (conn.go, part_002), QuerySync and QueryASync
   (part_001) *)

engVars == <<sockErr, closes, ctxDone, closedN, starts, rd, dp, buf, eng,
             npkts, out>>

\* conn.go: name + "."; the miekg generations: addDot(name)
QueryName(name) == IF variant = "conn_go" THEN Append(name, ".") ELSE addDot(name)

Entry(q) == [id |-> q, name |-> qs[q].name, ttype |-> qs[q].ttype]

\* conn.go: c.mu is free unless start holds its read lock for a datagram
MuFree == dp \in {"idle", "processed", "done"}

\* a query call that skips the first select on c.closed
QueryCallWithoutClosedCheck(q, kind, arg) ==
    /\ ~panicked
    /\ qs[q].pc = "idle"
    /\ \A p \in Q : p < q => qs[p].pc # "idle"
    /\ kind = "async" => variant = "part_001"
    /\ qs' = [qs EXCEPT ![q] = [@ EXCEPT !.pc = "reg", !.kind = kind,
                                         !.name = QueryName(arg.name),
                                         !.ttype = arg.ttype]]
    /\ cons' = [cons EXCEPT ![q] = IF kind = "async" THEN "waiting" ELSE @]
    /\ UNCHANGED <<variant, mu, lk, storeVars, panicked, engVars, queries, chans,
                   delivered, qctx, tick, nticks, qsent>>

\* the call and its first select: ConnectionClosed at once when c.closed is
\* closed.  QueryASync does the same inside its goroutine and closes results.
QueryCall(q, kind, arg) ==
    /\ ~panicked
    /\ qs[q].pc = "idle"
    /\ \A p \in Q : p < q => qs[p].pc # "idle"
    /\ kind = "async" => variant = "part_001"
    /\ qs' = [qs EXCEPT ![q] =
                 IF closedN >= 1
                 THEN [@ EXCEPT !.pc = "done", !.kind = kind,
                                !.name = arg.name, !.ttype = arg.ttype,
                                !.res = "ConnectionClosed"]
                 ELSE [@ EXCEPT !.pc = "reg", !.kind = kind,
                                !.name = QueryName(arg.name),
                                !.ttype = arg.ttype]]
    /\ cons' = [cons EXCEPT ![q] = IF kind = "async" THEN "waiting" ELSE @]
    /\ UNCHANGED <<variant, mu, lk, storeVars, panicked, engVars, queries, chans,
                   delivered, qctx, tick, nticks, qsent>>

\* conn.go 201-210: append under c.mu.Lock, then the first sendQuestion
QRegisterLocked(q) ==
    /\ ~panicked
    /\ ~Racy
    /\ qs[q].pc = "reg"
    /\ MuFree
    /\ queries' = Append(queries, Entry(q))
    /\ qs' = [qs EXCEPT ![q].pc = "wait"]
    /\ qsent' = [qsent EXCEPT ![q] = @ + 1]
    /\ UNCHANGED <<variant, mu, lk, storeVars, panicked, engVars, chans, delivered,
                   qctx, tick, nticks, cons>>

\* part_001 300-303, part_002 226-229: c.queries = append(c.queries, ...)
\* without a lock: the load of c.queries ...
QRegRead(q) ==
    /\ ~panicked
    /\ Racy
    /\ qs[q].pc = "reg"
    /\ qs' = [qs EXCEPT ![q].pc = "regw", ![q].snap = queries]
    /\ UNCHANGED <<variant, mu, lk, storeVars, panicked, engVars, queries, chans,
                   delivered, qctx, tick, nticks, qsent, cons>>

\* ... and the store of the longer slice, then the first sendQuestion
QRegWrite(q) ==
    /\ ~panicked
    /\ Racy
    /\ qs[q].pc = "regw"
    /\ queries' = Append(qs[q].snap, Entry(q))
    /\ qs' = [qs EXCEPT ![q].pc = "wait", ![q].snap = <<>>]
    /\ qsent' = [qsent EXCEPT ![q] = @ + 1]
    /\ UNCHANGED <<variant, mu, lk, storeVars, panicked, engVars, chans, delivered,
                   qctx, tick, nticks, cons>>

\* how a call ends when the select takes a case other than the answer
Finish(q, res) ==
    qs' = [qs EXCEPT ![q].pc = "done", ![q].res = res]

\* a ticker case that still runs once the call has returned
QTickAfterReturn(q) ==
    /\ ~panicked
    /\ qs[q].pc \in {"wait", "done"}
    /\ tick[q]
    /\ tick' = [tick EXCEPT ![q] = FALSE]
    /\ qsent' = [qsent EXCEPT ![q] = @ + 1]
    /\ UNCHANGED <<variant, mu, lk, storeVars, panicked, engVars, queries, chans,
                   delivered, qs, qctx, nticks, cons>>

\* a ticker case that takes the tick and sends nothing
QTickWithoutRetransmit(q) ==
    /\ ~panicked
    /\ qs[q].pc = "wait"
    /\ tick[q]
    /\ tick' = [tick EXCEPT ![q] = FALSE]
    /\ UNCHANGED <<variant, mu, lk, storeVars, panicked, engVars, queries, chans,
                   delivered, qs, qctx, nticks, qsent, cons>>

\* case <-ticker.C: c.sendQuestion(name, ttype)
QTick(q) ==
    /\ ~panicked
    /\ qs[q].pc = "wait"
    /\ tick[q]
    /\ tick' = [tick EXCEPT ![q] = FALSE]
    /\ qsent' = [qsent EXCEPT ![q] = @ + 1]
    /\ UNCHANGED <<variant, mu, lk, storeVars, panicked, engVars, queries, chans,
                   delivered, qs, qctx, nticks, cons>>

\* case <-c.closed: return errConnectionClosed / close(results)
QClosed(q) ==
    /\ ~panicked
    /\ qs[q].pc = "wait"
    /\ closedN >= 1
    /\ Finish(q, "ConnectionClosed")
    /\ UNCHANGED <<variant, mu, lk, storeVars, panicked, engVars, queries, chans,
                   delivered, qctx, tick, nticks, qsent, cons>>

\* case res := <-queryChan: return the answer, or, in QueryASync, go on to
\* results <- &res
QAnswer(q) ==
    /\ ~panicked
    /\ qs[q].pc = "wait"
    /\ chans[q] # <<>>
    /\ chans' = [chans EXCEPT ![q] = Tail(@)]
    /\ qs' = [qs EXCEPT ![q].val = Head(chans[q]),
                        ![q].pc = IF qs[q].kind = "async" THEN "sendres" ELSE "done",
                        ![q].res = IF qs[q].kind = "async" THEN @ ELSE "answer"]
    /\ UNCHANGED <<variant, mu, lk, storeVars, panicked, engVars, queries, delivered,
                   qctx, tick, nticks, qsent, cons>>

\* a ctx.Done case that returns the error of the c.closed case
QCtxReturnsConnectionClosed(q) ==
    /\ ~panicked
    /\ qs[q].pc = "wait"
    /\ qctx[q]
    /\ qs' = [qs EXCEPT ![q].pc = "done", ![q].res = "ConnectionClosed"]
    /\ UNCHANGED <<variant, mu, lk, storeVars, panicked, engVars, queries, chans,
                   delivered, qctx, tick, nticks, qsent, cons>>

\* case <-ctx.Done(): return errContextElapsed / close(results)
QCtx(q) ==
    /\ ~panicked
    /\ qs[q].pc = "wait"
    /\ qctx[q]
    /\ Finish(q, "ContextElapsed")
    /\ UNCHANGED <<variant, mu, lk, storeVars, panicked, engVars, queries, chans,
                   delivered, qctx, tick, nticks, qsent, cons>>

\* QueryASync: results <- &res on the unbuffered channel goes through when
\* the other end is receiving
QSendResult(q) ==
    /\ ~panicked
    /\ qs[q].pc = "sendres"
    /\ cons[q] = "waiting"
    /\ cons' = [cons EXCEPT ![q] = "got"]
    /\ Finish(q, "answer")
    /\ UNCHANGED <<variant, mu, lk, storeVars, panicked, engVars, queries, chans,
                   delivered, qctx, tick, nticks, qsent>>

\* the environment: the ticker of a waiting query fires (ticker.C has
\* capacity 1)
TickFire(q) ==
    /\ ~panicked
    /\ qs[q].pc = "wait"
    /\ ~tick[q]
    /\ nticks < MaxTicks
    /\ nticks' = nticks + 1
    /\ tick' = [tick EXCEPT ![q] = TRUE]
    /\ UNCHANGED <<variant, mu, lk, storeVars, panicked, engVars, queries, chans,
                   delivered, qs, qctx, qsent, cons>>

\* the environment: no path calls ticker.Stop(), so the ticker of a call
\* that has returned keeps firing; ticker.C (capacity 1) keeps one tick and
\* the runtime drops the others
TickFireAfterReturn(q) ==
    /\ ~panicked
    /\ qs[q].pc = "done"
    /\ qsent[q] >= 1
    /\ ~tick[q]
    /\ tick' = [tick EXCEPT ![q] = TRUE]
    /\ UNCHANGED <<variant, mu, lk, storeVars, panicked, engVars, queries, chans,
                   delivered, qs, qctx, nticks, qsent, cons>>

\* the environment: the caller's context is cancelled or times out (a
\* cancellation before the select is first seen by the select)
CancelQuery(q) ==
    /\ ~panicked
    /\ qs[q].pc = "wait"
    /\ ~qctx[q]
    /\ qctx' = [qctx EXCEPT ![q] = TRUE]
    /\ UNCHANGED <<variant, mu, lk, storeVars, panicked, engVars, queries, chans,
                   delivered, qs, tick, nticks, qsent, cons>>

\* the environment: the reader of results stops receiving (FindCatalog
\* returns on its own timeout or context)
ConsumerLeaves(q) ==
    /\ ~panicked
    /\ cons[q] = "waiting"
    /\ cons' = [cons EXCEPT ![q] = "gone"]
    /\ UNCHANGED <<variant, mu, lk, storeVars, panicked, engVars, queries, chans,
                   delivered, qs, qctx, tick, nticks, qsent>>

-----------------------------------------------------------------------------
(* The lock of the record store: Config embeds a sync.RWMutex *)

\* nobody holds or wants the lock
Mu0 == [readers |-> 0, writer |-> FALSE, waiting |-> FALSE]

Lk0 == [r |-> [pc |-> "idle", name |-> <<>>, ttype |-> "A", src |-> "s1"],
        w |-> [pc |-> "idle", name |-> <<>>, dst |-> "nil", dyn |-> FALSE]]

LockIdle == mu = Mu0 /\ lk = Lk0

\* what the engine looks up and what the application adds meanwhile
LockLookupNames == {NS, NT, NX, NN}

LockAddNames == { <<"y", ".">>, NX }

\* sync.RWMutex.RLock goes through unless a writer holds the lock or a call
\* of Lock is pending: a pending Lock holds back every later RLock, also one
\* of a goroutine that already holds a read lock
CanRLock == ~mu.writer /\ ~mu.waiting

RLocked == [mu EXCEPT !.readers = @ + 1]

RUnlocked == [mu EXCEPT !.readers = @ - 1]

\* the engine calls Config.Lookup
LookupCall(name, ttype, src) ==
    /\ lk.r.pc = "idle"
    /\ lk' = [lk EXCEPT !.r = [pc |-> "rlock", name |-> name,
                               ttype |-> ttype, src |-> src]]
    /\ UNCHANGED <<variant, mu, storeVars, panicked, connVars>>

\* Lookup: c.RLock(); defer c.RUnlock().  TypeA goes on to lookupA, which
\* takes no lock; TypeSRV goes on to lookupSRV
LookupRLock ==
    /\ lk.r.pc = "rlock"
    /\ CanRLock
    /\ mu' = RLocked
    /\ lk' = [lk EXCEPT !.r.pc = IF lk.r.ttype = "SRV" THEN "srv_rlock"
                                 ELSE "return"]
    /\ UNCHANGED <<variant, storeVars, panicked, connVars>>

\* lookupSRV: c.RLock(), while Lookup holds its read lock
lookupSRVRLock ==
    /\ lk.r.pc = "srv_rlock"
    /\ CanRLock
    /\ mu' = RLocked
    /\ lk' = [lk EXCEPT !.r.pc = "srv_runlock"]
    /\ UNCHANGED <<variant, storeVars, panicked, connVars>>

\* lookupSRV returns (deferred c.RUnlock()); when it found a record Lookup
\* calls itself
lookupSRVRUnlock ==
    /\ lk.r.pc = "srv_runlock"
    /\ mu' = RUnlocked
    /\ lk' = [lk EXCEPT !.r.pc = IF lookupFirst(SRVRecords, lk.r.name) # <<>>
                                 THEN "rec_rlock" ELSE "return"]
    /\ UNCHANGED <<variant, storeVars, panicked, connVars>>

\* the inner Lookup (of type A): c.RLock(), while the outer one holds its
\* read lock
LookupInnerRLock ==
    /\ lk.r.pc = "rec_rlock"
    /\ CanRLock
    /\ mu' = RLocked
    /\ lk' = [lk EXCEPT !.r.pc = "rec_runlock"]
    /\ UNCHANGED <<variant, storeVars, panicked, connVars>>

\* the inner Lookup returns
LookupInnerRUnlock ==
    /\ lk.r.pc = "rec_runlock"
    /\ mu' = RUnlocked
    /\ lk' = [lk EXCEPT !.r.pc = "return"]
    /\ UNCHANGED <<variant, storeVars, panicked, connVars>>

\* the outer Lookup returns its result and releases its read lock
LookupReturn ==
    /\ lk.r.pc = "return"
    /\ mu' = RUnlocked
    /\ lk' = [lk EXCEPT !.r.pc = "idle"]
    /\ LET r == Lookup(ARecords, SRVRecords, <<>>, lk.r.name, lk.r.ttype,
                       lk.r.src)
       IN  last' = [op |-> "Lookup", name |-> lk.r.name, ttype |-> lk.r.ttype,
                    src |-> lk.r.src, err |-> r.err, answers |-> r.answers,
                    local |-> r.local]
    /\ UNCHANGED <<variant, ARecords, SRVRecords, panicked, connVars>>

\* the application calls AddARecord, which reaches c.Lock() in
\* addARecordToConfig: the call of Lock is pending from here on
addARecordToConfigLock(name, dst, dyn) ==
    /\ lk.w.pc = "idle"
    /\ lk' = [lk EXCEPT !.w = [pc |-> "lock", name |-> name, dst |-> dst,
                               dyn |-> dyn]]
    /\ mu' = [mu EXCEPT !.waiting = TRUE]
    /\ UNCHANGED <<variant, storeVars, panicked, connVars>>

\* Lock returns once every reader has left
addARecordToConfigLocked ==
    /\ lk.w.pc = "lock"
    /\ mu.readers = 0
    /\ mu' = [mu EXCEPT !.waiting = FALSE, !.writer = TRUE]
    /\ lk' = [lk EXCEPT !.w.pc = "locked"]
    /\ UNCHANGED <<variant, storeVars, panicked, connVars>>

\* the duplicate check, the append and the deferred c.Unlock()
addARecordToConfigUnlock ==
    /\ lk.w.pc = "locked"
    /\ LET r == addRecordToConfig(ARecords,
                    newARecord(StoredName(lk.w.name), lk.w.dst, lk.w.dyn))
       IN  /\ ARecords' = r.recs
           /\ last' = Call("AddARecord", lk.w.name, r.err)
    /\ mu' = [mu EXCEPT !.writer = FALSE]
    /\ lk' = [lk EXCEPT !.w.pc = "idle"]
    /\ UNCHANGED <<variant, SRVRecords, panicked, connVars>>

\* the steps of the goroutine that looks up
LookupProgress ==
    \/ LookupRLock
    \/ lookupSRVRLock
    \/ lookupSRVRUnlock
    \/ LookupInnerRLock
    \/ LookupInnerRUnlock
    \/ LookupReturn

\* the steps of the goroutine that adds
AddProgress == addARecordToConfigLocked \/ addARecordToConfigUnlock

-----------------------------------------------------------------------------
(* Specifications *)

ConnIdle ==
    /\ sockErr = FALSE
    /\ closes = 0
    /\ ctxDone = FALSE
    /\ closedN = 0
    /\ starts = 1
    /\ rd = "read"
    /\ dp = "idle"
    /\ buf = Unset
    /\ eng = Eng0
    /\ npkts = 0
    /\ out = <<>>
    /\ queries = <<>>
    /\ qs = [q \in Q |-> Q0]
    /\ chans = [q \in Q |-> <<>>]
    /\ delivered = [q \in Q |-> <<>>]
    /\ qctx = [q \in Q |-> FALSE]
    /\ tick = [q \in Q |-> FALSE]
    /\ nticks = 0
    /\ qsent = [q \in Q |-> 0]
    /\ cons = [q \in Q |-> "none"]

StoreInit ==
    /\ variant \in StoreVariants
    /\ ARecords = <<>>
    /\ SRVRecords = <<>>
    /\ panicked = FALSE
    /\ last = Call("none", <<>>, "nil")
    /\ ConnIdle
    /\ LockIdle

StoreNext ==
    \/ \E n \in RawNames, d \in DstOpts, dyn \in BOOLEAN : AddARecord(n, d, dyn)
    \/ \E n \in RawNames, p \in Ports, t \in Targets : AddSRVRecord(n, 0, 0, p, t)
    \/ \E n \in RawNames : RemoveARecord(n)
    \/ \E n \in RawNames : RemoveSRVRecord(n)
    \/ \E n \in RawNames, t \in QTypes, s \in Srcs : DoLookup(n, t, s)

StoreSpec == StoreInit /\ [][StoreNext]_vars

\* Server(conn, config) with the configured records; in conn.go and
\* part_002 it starts the receive loop, in part_001 the caller runs Start
Init ==
    /\ variant \in Variants
    /\ ARecords = ConnARecords
    /\ SRVRecords = ConnSRVRecords
    /\ panicked = FALSE
    /\ last = Call("none", <<>>, "nil")
    /\ ConnIdle
    /\ LockIdle

\* the steps of the goroutine that reads the socket
ReaderProgress == ReadError

\* the steps of the code that processes a datagram
DispatcherProgress ==
    \/ Handoff
    \/ DispatcherShutdown
    \/ DispatchParse
    \/ AnswerStep
    \/ AnswerWrite
    \/ BlockedResume
    \/ EngineLoop

\* the steps of the goroutine that runs query call q
QueryProgress(q) ==
    \/ QRegisterLocked(q)
    \/ QRegRead(q)
    \/ QRegWrite(q)
    \/ QTick(q)
    \/ QClosed(q)
    \/ QAnswer(q)
    \/ QCtx(q)
    \/ QSendResult(q)

\* a responder: questions arrive, nobody queries
ResponderNext ==
    \/ \E pkt \in QuestionPackets : Recv(pkt)
    \/ ReadError
    \/ Handoff
    \/ DispatcherShutdown
    \/ DispatchParse
    \/ AnswerStep
    \/ EngineLoop
    \/ StartAgain
    \/ SocketError
    \/ CancelServer

ResponderSpec == Init /\ [][ResponderNext]_vars

\* a querier: blocking queries run while datagrams arrive
EngineNext ==
    \/ \E pkt \in MixedPackets : Recv(pkt)
    \/ ReadError
    \/ Handoff
    \/ DispatcherShutdown
    \/ DispatchParse
    \/ AnswerStep
    \/ AnswerWrite
    \/ BlockedResume
    \/ EngineLoop
    \/ StartAgain
    \/ SocketError
    \/ CancelServer

QueryNext ==
    \/ \E q \in Q, a \in QueryArgs : QueryCall(q, "sync", a)
    \/ \E q \in Q : QRegisterLocked(q)
    \/ \E q \in Q : QRegRead(q)
    \/ \E q \in Q : QRegWrite(q)
    \/ \E q \in Q : QTick(q)
    \/ \E q \in Q : QClosed(q)
    \/ \E q \in Q : QAnswer(q)
    \/ \E q \in Q : QCtx(q)
    \/ \E q \in Q : TickFire(q)
    \/ \E q \in Q : CancelQuery(q)

Next == EngineNext \/ QueryNext

Spec == Init /\ [][Next]_vars

\* one query call, blocking or not, with the scheduling the Go runtime
\* gives: a goroutine that can take a step takes one
LiveNext ==
    \/ \E pkt \in AnswerPackets : Recv(pkt)
    \/ ReadError
    \/ Handoff
    \/ DispatcherShutdown
    \/ DispatchParse
    \/ AnswerStep
    \/ AnswerWrite
    \/ EngineLoop
    \/ SocketError
    \/ CancelServer
    \/ \E k \in QueryKinds, a \in QueryArgs : QueryCall(1, k, a)
    \/ QueryProgress(1)
    \/ TickFire(1)
    \/ CancelQuery(1)
    \/ ConsumerLeaves(1)

FairSpec ==
    /\ Init
    /\ [][LiveNext]_vars
    /\ WF_vars(ReaderProgress)
    /\ WF_vars(DispatcherProgress)
    /\ WF_vars(QueryProgress(1))

-----------------------------------------------------------------------------
(* Claims on the record store *)

NoTwoCanonical(recs) ==
    \A i, j \in 1..Len(recs) :
        i # j => Canonical(recs[i].name) # Canonical(recs[j].name)

\* C1: after any sequence of add_a / add_srv / remove_a / remove_srv calls
\* the store never holds two A records, nor two SRV records, whose canonical
\* owner names (lowercase, trailing dot) are equal.
C1_NoTwoRecordsShareCanonicalName ==
    NoTwoCanonical(ARecords) /\ NoTwoCanonical(SRVRecords)

\* the stored SRV record a lookup of qName finds, and the A record stored
\* under that record's target
SrvOf(qName) == lookupFirst(SRVRecords, qName)

TargetAOf(qName) == lookupFirst(ARecords, SrvOf(qName)[1].target)

\* C3: for an SRV question that names a stored SRV record whose target has
\* an A record (static, or dynamic and resolvable for the source), lookup
\* returns the SRV record followed by the A record of the target.
C3_SRVLookupReturnsSRVThenTargetA ==
    ( /\ last.op = "Lookup"
      /\ last.ttype = "SRV"
      /\ SrvOf(last.name) # <<>>
      /\ TargetAOf(last.name) # <<>>
      /\ ( TargetAOf(last.name)[1].dynamic
             => interfaceForRemote(last.src).err = "nil" ) )
    => /\ last.err = "nil"
       /\ Len(last.answers) = 2
       /\ last.answers[1] = SrvOf(last.name)[1]
       /\ last.answers[2].rtype = "A"
       /\ last.answers[2].name = SrvOf(last.name)[1].target

-----------------------------------------------------------------------------
(* Claims on the packet engine *)

\* the engine has parsed the datagram it holds: eng.msg is that message and
\* out is what has been sent on its behalf
Parsed == dp \in {"answers", "write", "blocked", "processed"}

\* a message that passes the parser and the OPCODE / RCODE / TC gates
WellFormed(m) == ~m.bad /\ m.opcode = 0 /\ m.rcode = 0 /\ ~m.tc

\* the stored A record a question for qName finds
StoredAOf(qName) == lookupFirst(ARecords, qName)

\* C2: when an inbound question of type A names a stored static A record,
\* the engine sends one response to the mDNS destination whose answer
\* section holds exactly one A record with that owner name, the stored
\* address and TTL 10.
C2_StaticAQuestionGetsOneARecord ==
    ( /\ Parsed
      /\ WellFormed(eng.msg)
      /\ Len(eng.msg.questions) = 1
      /\ eng.msg.questions[1].qtype = "A"
      /\ StoredAOf(eng.msg.questions[1].name) # <<>>
      /\ ~StoredAOf(eng.msg.questions[1].name)[1].dynamic )
    => /\ Len(out) = 1
       /\ out[1].dst = destinationAddress
       /\ out[1].response
       /\ Len(out[1].answers) = 1
       /\ out[1].answers[1].name = eng.msg.questions[1].name
       /\ out[1].answers[1].rtype = "A"
       /\ out[1].answers[1].addr = StoredAOf(eng.msg.questions[1].name)[1].addr
       /\ out[1].answers[1].ttl = 10

\* a message one of the protocol gates has to stop
Gated(m) == m.opcode # 0 \/ m.rcode # 0 \/ m.tc

\* C4: an inbound packet with OPCODE # 0, RCODE # 0 or the TC bit set
\* causes no outbound packet and no removal from the query registry,
\* whatever questions and answers it carries.
C4_GatedPacketHasNoEffect ==
    (Parsed /\ Gated(eng.msg)) => (out = <<>> /\ eng.did = 0)

-----------------------------------------------------------------------------
(* Claims on outbound queries and on shutdown *)

\* the registry holds an entry of query call q
Registered(q) == \E i \in 1..Len(queries) : queries[i].id = q

\* C5: every query sink receives at most one delivery over any run, and a
\* blocking query that returns an answer returns the first value delivered
\* to its sink.
C5_SinkReceivesAtMostOneDelivery ==
    \A q \in Q :
        /\ Len(delivered[q]) <= 1
        /\ qs[q].res = "answer" => qs[q].val = delivered[q][1]

\* query call q returns in this step
Returns(q) == qs[q].pc = "wait" /\ qs'[q].pc = "done"

\* C6 as stated: a blocking query whose cancellation signal has fired while
\* nothing has been delivered to its sink returns ContextElapsed.
C6_CancelledQueryReturnsContextElapsed ==
    [][\A q \in Q :
          (Returns(q) /\ qctx[q] /\ delivered[q] = <<>>)
              => qs'[q].res = "ContextElapsed"]_vars

\* C6, amended: a blocking query whose cancellation signal has fired while
\* nothing has been delivered to its sink and no shutdown has been
\* broadcast returns ContextElapsed, also when a tick is ready at that
\* moment.
C6_CancelledQueryReturnsContextElapsedUnlessClosed ==
    [][\A q \in Q :
          (Returns(q) /\ qctx[q] /\ delivered[q] = <<>> /\ closedN = 0)
              => qs'[q].res = "ContextElapsed"]_vars

\* a query has returned ContextElapsed with nothing delivered, no shutdown,
\* and a tick still waiting in ticker.C
C6_CancelledWithTickReady ==
    \E q \in Q :
        /\ qs[q].pc = "done"
        /\ qs[q].res = "ContextElapsed"
        /\ delivered[q] = <<>>
        /\ closedN = 0
        /\ tick[q]

\* C7: after a query call has returned, for whatever reason, the registry
\* holds no entry for it.
C7_ReturnedQueryHasNoEntry ==
    \A q \in Q : qs[q].pc = "done" => ~Registered(q)

\* query call q is past its first select and has not returned
Pending(q) == qs[q].pc \in {"reg", "regw", "wait"}

\* C8: once the shutdown signal has been broadcast, every query call that
\* is pending then eventually completes (the claim adds: with
\* ConnectionClosed, or with its result channel closed).
C8_PendingQueriesCompleteAfterShutdown ==
    \A q \in Q : (closedN >= 1 /\ Pending(q)) ~> (qs[q].pc = "done")

\* C9: a blocking query issued after the shutdown signal has been broadcast
\* returns ConnectionClosed in its first step, adds no registry entry and
\* transmits no question.
C9_QueryAfterShutdownIsRejected ==
    [][\A q \in Q :
          (qs[q].pc = "idle" /\ qs'[q].pc # "idle" /\ closedN >= 1)
              => /\ qs'[q].pc = "done"
                 /\ qs'[q].res = "ConnectionClosed"
                 /\ queries' = queries
                 /\ qsent'[q] = 0]_vars

\* a query has been rejected at once after the shutdown signal
C9_RejectedAfterShutdown ==
    \E q \in Q :
        /\ closedN >= 1
        /\ qs[q].pc = "done"
        /\ qs[q].res = "ConnectionClosed"
        /\ qsent[q] = 0

\* C10: in every run the shutdown signal is broadcast exactly once and the
\* socket is closed exactly once when the receive loop ends, through a
\* socket error or through external shutdown, however often start runs.
C10_ShutdownAndSocketCloseExactlyOnce ==
    /\ closedN <= 1
    /\ closes <= 1
    /\ rd = "done" => (closedN = 1 /\ closes = 1)

-----------------------------------------------------------------------------
(* Claims on the end of Start and on nonblocking queries *)

\* Start has returned: wg.Wait() is through once the reading goroutine and
\* the dispatching goroutine are both done
StartReturned == rd = "done" /\ dp = "done"

\* C11: after the external shutdown signal (the context given to NewServer)
\* fires, Start eventually returns: the reading goroutine and the
\* dispatching goroutine both terminate, also when a datagram was read
\* while the shutdown happened.
C11_StartReturnsAfterShutdown == ctxDone ~> StartReturned

\* the goroutine of nonblocking query call q is running
AsyncRunning(q) ==
    qs[q].kind = "async" /\ qs[q].pc \in {"reg", "regw", "wait", "sendres"}

\* C12: every nonblocking query call ends with one of two outcomes on its
\* result channel, an answer set sent or the channel closed; once the
\* caller's cancellation signal or the shutdown signal has fired, one of
\* them eventually occurs (the claim adds: the closure without a value).
C12_NonblockingQueryEndsOnCancelOrShutdown ==
    \A q \in Q :
        (AsyncRunning(q) /\ (qctx[q] \/ closedN >= 1)) ~> (qs[q].pc = "done")

-----------------------------------------------------------------------------
(* Claims on the record store calls *)

\* recs holds a record whose canonical owner name is that of name
HasCanonical(recs, name) ==
    \E i \in 1..Len(recs) : Canonical(recs[i].name) = Canonical(name)

\* this step is a call of the store operation op
IsCall(op) == last'.op = op /\ last'.name # <<>>

\* C13: add_a or add_srv for a (canonical name, type) that is already in
\* the store returns RecordExists and leaves the store unchanged, so that a
\* following lookup still finds the record added first.
C13_DuplicateAddIsRejected ==
    [][ /\ (IsCall("AddARecord") /\ HasCanonical(ARecords, last'.name))
            => (last'.err = "errRecordExists" /\ ARecords' = ARecords)
        /\ (IsCall("AddSRVRecord") /\ HasCanonical(SRVRecords, last'.name))
            => (last'.err \in {"errRecordExists", "errInvalidParameter"}
                /\ SRVRecords' = SRVRecords) ]_vars

\* this step is the call remove(n) right after a successful add(n)
RemovesJustAdded(addOp, removeOp) ==
    /\ last.op = addOp
    /\ last.err = "nil"
    /\ IsCall(removeOp)
    /\ last'.name = last.name

\* C14: for any store state, add_a(n) followed by remove_a(n) both succeed
\* and afterwards a lookup of n finds no A record; likewise add_srv(n)
\* followed by remove_srv(n); also when the record is the most recently
\* added one.
C14_AddThenRemoveLeavesNoRecord ==
    [][ /\ RemovesJustAdded("AddARecord", "RemoveARecord")
            => /\ last'.err = "nil"
               /\ ~panicked'
               /\ lookupFirst(ARecords', last'.name) = <<>>
        /\ RemovesJustAdded("AddSRVRecord", "RemoveSRVRecord")
            => /\ last'.err = "nil"
               /\ ~panicked'
               /\ lookupFirst(SRVRecords', last'.name) = <<>> ]_vars

\* C15: remove_a(name) and remove_srv(name) return RecordNotFound when the
\* store holds no record of that type under that name, and the store is
\* then unchanged.
C15_RemoveOfAbsentNameIsRecordNotFound ==
    [][ /\ (last'.op = "RemoveARecord" /\ LastIndexOf(ARecords, last'.name) = 0)
            => /\ last'.err = "errRecordNotFound"
               /\ ARecords' = ARecords
               /\ SRVRecords' = SRVRecords
               /\ ~panicked'
        /\ (last'.op = "RemoveSRVRecord" /\ LastIndexOf(SRVRecords, last'.name) = 0)
            => /\ last'.err = "errRecordNotFound"
               /\ ARecords' = ARecords
               /\ SRVRecords' = SRVRecords
               /\ ~panicked' ]_vars

\* a remove_a has returned RecordNotFound from a store that holds A records
C15_RemoveMissedInNonEmptyStore ==
    /\ last.op = "RemoveARecord"
    /\ last.err = "errRecordNotFound"
    /\ ARecords # <<>>
    /\ LastIndexOf(ARecords, last.name) = 0

\* the call of this step has returned InvalidParameter and changed nothing
RejectedAsInvalid ==
    /\ last'.err = "errInvalidParameter"
    /\ ARecords' = ARecords
    /\ SRVRecords' = SRVRecords
    /\ ~panicked'

\* C16: add_a with an empty name, and add_srv with an empty name or an
\* empty target, return InvalidParameter and leave the store unchanged.
C16_EmptyNameOrTargetIsInvalidParameter ==
    [][ /\ (last'.op = "AddARecord" /\ last'.name = <<>>) => RejectedAsInvalid
        /\ (last'.op = "AddSRVRecord" /\ last'.name = <<>>) => RejectedAsInvalid
        /\ last'.op = "AddSRVRecord"
            => \A p \in Ports :
                  AddSRVRecord(last'.name, 0, 0, p, <<>>) => RejectedAsInvalid ]_vars

\* an add_srv with a name and an empty target has been rejected, in a store
\* that holds records
C16_EmptyTargetRejected ==
    /\ last.op = "AddSRVRecord"
    /\ last.name # <<>>
    /\ last.err = "errInvalidParameter"
    /\ ARecords # <<>>

\* C17: add_a inserts a static A record carrying dst exactly when dynamic is
\* false and dst is present; in every other case (dynamic true with or
\* without dst, dynamic false without dst) it inserts a dynamic A record.
C17_StaticExactlyWhenNotDynamicAndDstGiven ==
    [][ (last'.op = "AddARecord" /\ last'.err = "nil")
        => \A d \in DstOpts, dyn \in BOOLEAN :
              AddARecord(last'.name, d, dyn)
              => /\ Len(ARecords') = Len(ARecords) + 1
                 /\ SubSeq(ARecords', 1, Len(ARecords)) = ARecords
                 /\ ARecords'[Len(ARecords')].name = StoredName(last'.name)
                 /\ IF ~dyn /\ d # "nil"
                    THEN /\ ~ARecords'[Len(ARecords')].dynamic
                         /\ ARecords'[Len(ARecords')].addr = d
                    ELSE ARecords'[Len(ARecords')].dynamic ]_vars

\* the store holds a static record with its address and a dynamic record
C17_StaticAndDynamicStored ==
    \E i, j \in 1..Len(ARecords) :
        /\ ~ARecords[i].dynamic
        /\ ARecords[i].addr \in IPs
        /\ ARecords[j].dynamic

\* the last call was a lookup that found no record
LookupFoundNothing ==
    \/ last.err = "errRecordNotFound"
    \/ last.err = "nil" /\ last.local = <<>>

\* C18: names that differ only in letter case or in the trailing dot are
\* the same key: a lookup of type A for a question name (which, coming from
\* the wire, ends with a dot) that has the canonical form of a stored
\* record's name finds a record (and so for add, remove, query
\* registration and answer matching, which compare the same way).
C18_LookupComparesCanonicalNames ==
    ( /\ last.op = "Lookup"
      /\ last.ttype = "A"
      /\ last.name = addDot(last.name)
      /\ HasCanonical(ARecords, last.name) )
    => ~LookupFoundNothing

-----------------------------------------------------------------------------
(* Claims on dynamic A records *)

\* the engine has processed a well-formed datagram whose single question is
\* of type A and names a stored dynamic A record
DynamicAQuestion ==
    /\ Parsed
    /\ WellFormed(eng.msg)
    /\ Len(eng.msg.questions) = 1
    /\ eng.msg.questions[1].qtype = "A"
    /\ StoredAOf(eng.msg.questions[1].name) # <<>>
    /\ StoredAOf(eng.msg.questions[1].name)[1].dynamic

\* C19: for a dynamic A record the response carries the local IPv4 the
\* interface resolver selects for the source address of that very query,
\* whatever earlier queries came from, and the stored record stays dynamic
\* and unchanged by the lookups.
C19_DynamicAnswerCarriesResolvedAddress ==
    (DynamicAQuestion /\ interfaceForRemote(eng.src).err = "nil")
    => /\ Len(out) = 1
       /\ Len(out[1].answers) = 1
       /\ out[1].answers[1].name = eng.msg.questions[1].name
       /\ out[1].answers[1].addr = interfaceForRemote(eng.src).ip
       /\ ARecords = ConnARecords

\* C20: when an A question matches a dynamic A record and the interface
\* resolver fails for the source address of the query, the lookup returns
\* InvalidParameter and the engine sends no response for that question.
C20_ResolverFailureSendsNoResponse ==
    (DynamicAQuestion /\ interfaceForRemote(eng.src).err # "nil")
    => /\ Lookup(ARecords, SRVRecords, <<>>, eng.msg.questions[1].name,
                 "A", eng.src).err = "errInvalidParameter"
       /\ out = <<>>

C20_UnresolvableSourceProcessed ==
    /\ DynamicAQuestion
    /\ dp = "processed"
    /\ eng.src = "s3"
    /\ interfaceForRemote(eng.src).err # "nil"
    /\ out = <<>>

-----------------------------------------------------------------------------
(* Claims on lookups that find no address or no record *)

\* C21: for an SRV question that names a stored SRV record while no A record
\* is stored for the target of that record, lookup succeeds and returns
\* exactly the SRV record.
C21_SRVWithoutTargetAReturnsSRVAlone ==
    ( /\ last.op = "Lookup"
      /\ last.ttype = "SRV"
      /\ SrvOf(last.name) # <<>>
      /\ TargetAOf(last.name) = <<>> )
    => /\ last.err = "nil"
       /\ last.answers = <<SrvOf(last.name)[1]>>

\* the question's (name, type) matches no record of the store
MatchesNoRecord(q) ==
    /\ q.qtype = "A" => lookupFirst(ARecords, q.name) = <<>>
    /\ q.qtype = "SRV" => lookupFirst(SRVRecords, q.name) = <<>>

\* C22: for an inbound question whose (name, type) matches no record of the
\* store the engine transmits no packet.
C22_UnmatchedQuestionGetsNoPacket ==
    ( /\ Parsed
      /\ WellFormed(eng.msg)
      /\ eng.msg.questions # <<>>
      /\ \A i \in 1..Len(eng.msg.questions) :
             MatchesNoRecord(eng.msg.questions[i]) )
    => out = <<>>

-----------------------------------------------------------------------------
(* Record store calls and a query call around the shutdown of the server *)

TeardownNames == { <<"x", ".">>, <<"y", ".">> }

\* the application fills and empties the store and starts one query while
\* the server runs into its shutdown; no datagram arrives
TeardownNext ==
    \/ \E n \in TeardownNames, d \in IPs, dyn \in BOOLEAN : AddARecord(n, d, dyn)
    \/ \E n \in TeardownNames, p \in Ports : AddSRVRecord(n, 0, 0, p, <<"y", ".">>)
    \/ \E n \in TeardownNames : RemoveARecord(n)
    \/ \E n \in TeardownNames : RemoveSRVRecord(n)
    \/ ReadError
    \/ DispatcherShutdown
    \/ SocketError
    \/ CancelServer
    \/ \E a \in QueryArgs : QueryCall(1, "sync", a)
    \/ QRegisterLocked(1)
    \/ QRegRead(1)
    \/ QRegWrite(1)

TeardownSpec == StoreInit /\ [][TeardownNext]_vars

IsMutation(op) ==
    op \in {"AddARecord", "AddSRVRecord", "RemoveARecord", "RemoveSRVRecord"}

\* C23: once the shutdown signal has fired, add_a, add_srv, remove_a and
\* remove_srv are rejected and leave the store unchanged, and no new entry
\* is registered in the query registry.
C23_MutationsRejectedAfterShutdown ==
    [][ closedN >= 1
        => /\ ARecords' = ARecords
           /\ SRVRecords' = SRVRecords
           /\ (IsMutation(last'.op) /\ last' # last) => last'.err # "nil"
           /\ Len(queries') <= Len(queries) ]_vars

-----------------------------------------------------------------------------
(* Claims on the delivery of answers to the query registry *)

\* the engine takes its step for the answer it is at
AnswerIsProcessed == dp = "answers" /\ (eng' # eng \/ dp' # dp)

\* what the sink got is the answer section of message m.  The answer field of
\* conn.go's queryResult is one dnsmessage.ResourceHeader, a value of another
\* type than a section; part_001 and part_002 hold a []dns.RR there.
CarriesAnswerSection(pay, m) == variant # "conn_go" /\ pay.answer = m.answers

\* the registry as the engine leaves it: the shortened slice, stored at once
\* or in the step that follows
RegistryLeft == IF dp' = "write" THEN eng'.pend ELSE queries'

\* C24: for each A or SRV answer the engine processes in an accepted packet,
\* every registry entry whose (name, qtype) equals the answer's name and
\* type gets the whole answer section of the packet and the source address
\* of the packet delivered to its sink and is removed from the registry.
C24_MatchingEntriesDeliveredAndRemoved ==
    [][ (AnswerIsProcessed /\ eng.hdrs[eng.ai].rtype \in {"A", "SRV"})
        => \A k \in 1..Len(queries) :
             ( /\ queries[k].name = eng.hdrs[eng.ai].name
               /\ queries[k].ttype = eng.hdrs[eng.ai].rtype )
             => /\ Len(delivered'[queries[k].id]) = Len(delivered[queries[k].id]) + 1
                /\ LET pay == delivered'[queries[k].id][Len(delivered'[queries[k].id])]
                   IN  pay.addr = eng.src /\ CarriesAnswerSection(pay, eng.msg)
                /\ \A j \in 1..Len(RegistryLeft) :
                       RegistryLeft[j].id # queries[k].id ]_vars

\* the indices of the registry entries of query call q
EntriesOf(q) == {k \in 1..Len(queries) : queries[k].id = q}

\* C25: under every interleaving of concurrent registrations with each other
\* and with the deliveries of the engine, each registered query that has
\* not been delivered to is in the registry exactly once: no registration
\* is lost and no entry is duplicated.
C25_RegisteredQueryIsInRegistryOnce ==
    \A q \in Q :
        (qs[q].pc = "wait" /\ delivered[q] = <<>>)
        => Cardinality(EntriesOf(q)) = 1

-----------------------------------------------------------------------------
(* Claims on the end of the receive loop *)

\* the socket read has returned an error and the loop that reads has exited
ReadLoopExited == rd = "done"

\* C26: whenever a socket read returns an error the receive loop exits and
\* the shutdown signal is eventually broadcast, also when nobody asked for a
\* shutdown from outside.
C26_ReadErrorLeadsToShutdownSignal == ReadLoopExited ~> (closedN >= 1)

-----------------------------------------------------------------------------
(* Claims on the sinks of queries *)

\* C27: the engine never blocks while it delivers to a sink: whenever it
\* sends to the sink of an entry the sink has free capacity, also when the
\* querying task is slow or has returned.
C27_EngineNeverBlocksOnSink == dp # "blocked"

\* the goroutine of a nonblocking query has taken its answer from the sink
\* and is at `results <- &res`
AsyncHasAnswer(q) == qs[q].kind = "async" /\ qs[q].pc = "sendres"

\* C28: the background task of a nonblocking query always terminates after
\* an answer, a cancellation or a shutdown, also when the consumer of the
\* result channel has stopped receiving: it never stays blocked on sending
\* the result.
C28_NonblockingQueryNeverStuckOnResult ==
    \A q \in Q : AsyncHasAnswer(q) ~> (qs[q].pc = "done")

-----------------------------------------------------------------------------
(* Claims on the questions a query transmits *)

\* query call q finishes its registration in this step
Registers(q) == qs[q].pc \in {"reg", "regw"} /\ qs'[q].pc = "wait"

\* query call q takes a tick of its ticker in this step
ConsumesTick(q) == qs[q].pc = "wait" /\ tick[q] /\ ~tick'[q]

-----------------------------------------------------------------------------
(* Claims on the number of questions answered per datagram *)

\* C30: for every inbound packet the engine looks up at most one question
\* (maxQueryMessageRecords = 1) and therefore sends at most one response
\* per inbound packet, however many questions the packet carries.  out
\* holds the responses sent for the datagram in hand, one per lookup that
\* returned nil.
C30_AtMostOneResponsePerPacket == Len(out) <= maxQueryMessageRecords

-----------------------------------------------------------------------------
(* Claims on which answers of a packet are matched against the registry *)

\* the engine takes a step of its answer loop: a scan, the store of the
\* shortened registry, or the completion of a blocked send
AnswerLoopStep ==
    dp \in {"answers", "write", "blocked"} /\ (eng' # eng \/ dp' # dp)

\* the step delivers to a sink or changes the registry
DeliversOrRemoves == delivered' # delivered \/ queries' # queries

\* h is one of the first maxMessageRecords answers of the packet in hand
AmongFirstAnswers(h) ==
    \E i \in 1..Min(Len(eng.msg.answers), maxMessageRecords) :
        eng.msg.answers[i] = h

\* C31: for every inbound packet the engine matches at most three answers
\* (maxMessageRecords = 3) against the query registry: a fourth or later
\* answer of the packet never causes a delivery or a registry removal.
C31_FourthAnswerIsNeverMatched ==
    [][ (AnswerLoopStep /\ DeliversOrRemoves)
        => AmongFirstAnswers(eng.hdrs[eng.ai]) ]_vars

\* registry entry e asks for the (name, type) of answer header h
Matches(e, h) == e.name = h.name /\ e.ttype = h.rtype

\* C32: answers of type A and of type SRV are both matched against the
\* query registry, so a pending SRV query is completed by a matching SRV
\* answer; answers of any other type never cause a delivery or a registry
\* removal.
C32_AAndSRVAnswersAreMatchedOthersNot ==
    [][ /\ (AnswerIsProcessed /\ eng.hdrs[eng.ai].rtype \in {"A", "SRV"})
           => \A k \in 1..Len(queries) :
                  Matches(queries[k], eng.hdrs[eng.ai])
                  => delivered'[queries[k].id] # delivered[queries[k].id]
        /\ (AnswerLoopStep /\ DeliversOrRemoves)
           => eng.hdrs[eng.ai].rtype \in {"A", "SRV"} ]_vars

-----------------------------------------------------------------------------
(* Claims on what a remove leaves in the store *)

\* a remove call of the given operation that returns nil
RemoveSucceeds(op) == last'.op = op /\ last'.err = "nil" /\ ~panicked'

\* C33: a successful remove_a(n) or remove_srv(n) removes exactly the record
\* named n: every other record that was in the store before the call is
\* still there afterwards, with the same contents, whatever the position of
\* n among the stored records.
C33_RemoveTakesOutOnlyTheNamedRecord ==
    [][ /\ RemoveSucceeds("RemoveARecord")
           => /\ ARecords' = RemoveIdx(ARecords, LastIndexOf(ARecords, last'.name))
              /\ SRVRecords' = SRVRecords
        /\ RemoveSucceeds("RemoveSRVRecord")
           => /\ SRVRecords' = RemoveIdx(SRVRecords, LastIndexOf(SRVRecords, last'.name))
              /\ ARecords' = ARecords ]_vars

-----------------------------------------------------------------------------
(* Lookups and adds at the lock of the store *)

\* the engine looks records up while the application adds A records
LockNext ==
    \/ \E n \in LockLookupNames, t \in QTypes, s \in {"s1"} : LookupCall(n, t, s)
    \/ LookupRLock
    \/ lookupSRVRLock
    \/ lookupSRVRUnlock
    \/ LookupInnerRLock
    \/ LookupInnerRUnlock
    \/ LookupReturn
    \/ \E n \in LockAddNames, d \in IPs : addARecordToConfigLock(n, d, FALSE)
    \/ addARecordToConfigLocked
    \/ addARecordToConfigUnlock

\* a goroutine that can take a step takes one.  Unlock admits every RLock
\* that was held back before the next Lock can get in, so a reader that is
\* let in again and again is not passed over for ever
LockSpec ==
    /\ Init
    /\ [][LockNext]_vars
    /\ SF_vars(LookupProgress)
    /\ WF_vars(AddProgress)

\* C34: a lookup of an SRV name never deadlocks against concurrent store
\* mutations: under every interleaving of Lookup, which takes the read lock
\* and for SRV takes it again in lookupSRV and in the recursive Lookup, with
\* add callers waiting for the write lock, every lookup and every mutation
\* eventually completes.
C34_LookupAndAddAlwaysComplete ==
    /\ (lk.r.pc # "idle") ~> (lk.r.pc = "idle")
    /\ (lk.w.pc # "idle") ~> (lk.w.pc = "idle")

-----------------------------------------------------------------------------
(* Claims on the receive buffer *)

\* C35: every datagram the dispatching task processes is processed with
\* exactly the bytes that were received for it: the reading task never
\* overwrites the receive buffer of a datagram that has been handed to the
\* dispatcher and is not yet parsed.
C35_DatagramParsedAsReceived == Parsed => eng.msg = eng.raw

-----------------------------------------------------------------------------
(* A query call and its ticker after the call has returned *)

TickNext == LiveNext \/ TickFireAfterReturn(1)

TickSpec == Init /\ [][TickNext]_vars

\* C36: after a query call has returned (with an answer, ContextElapsed or
\* ConnectionClosed) no further question is transmitted on behalf of that
\* query, however many retransmission ticks elapse afterwards.
C36_NoQuestionAfterReturn ==
    [][ \A q \in Q : qs[q].pc = "done" => qsent'[q] = qsent[q] ]_vars

C36_TickAfterReturnPending ==
    \E q \in Q : /\ qs[q].pc = "done"
                 /\ qs[q].res = "answer"
                 /\ qsent[q] >= 1
                 /\ tick[q]
                 /\ nticks = 0

====
